---- MODULE Spec2Model ----
(***************************************************************************)
(* Model of src/ziptuple.rs: the lockstep iterator adaptors Zip and        *)
(* ZipTrusted over a tuple of component iterators.                         *)
(*                                                                         *)
(* A caller owns a tuple `src` of component iterators, wraps it with       *)
(* Zip::new or ZipTrusted::new and then calls next() and size_hint() in    *)
(* any order.  Option values are sequences: None is << >> and Some(x) is   *)
(* <<x>>.  A size hint is the pair <<lower, upper>> with upper an Option.  *)
(***************************************************************************)
EXTENDS Integers, Sequences, FiniteSets, TLC

\* ---- bounds of the model ----
MaxN == 3        \* largest tuple arity explored (the macros instantiate 1..9)
MaxLen == 2      \* longest underlying component sequence, and largest Take limit
MaxNones == 3    \* next() is called at most this many times with a None result
MaxHints == 2    \* size_hint() is called at most this many times between two next() calls
MaxNewN == 2     \* largest tuple arity explored for construction over partly traversed components

\* ::std::usize::MAX, here for a 16-bit target; the model only compares with
\* it and wraps the (unreachable) decrement below zero to it
USIZE_MAX == 65535

VARIABLES
    impls,    \* the component kinds that have an `unsafe impl TrustedIterator`
    asserted, \* None, or Some(value of the debug_assert! conditions of ZipTrusted::new)
    src,      \* the tuple of component iterators handed to new()
    z,        \* which adaptor wraps the tuple: "none", "Zip", "ZipTrusted";
              \* "panicked" when a debug_assert! of ZipTrusted::new failed
    t,        \* field t of the adaptor: the owned component iterators
    length,   \* field length of ZipTrusted (0 and unused for Zip)
    ret,      \* result of the last next() call, None before any call
    pulled,   \* indices of the components whose next() the last call invoked, in call order
    out,      \* the items yielded so far by next(), oldest first
    nones,    \* number of next() calls that returned None so far
    hint,     \* << >>, or the result of the last size_hint() call made since the last next()
    hcalls,   \* number of size_hint() calls made since the last next()
    ub        \* TRUE once ZipTrusted::next reached intrinsics::assume(false)

vars == <<impls, asserted, src, z, t, length, ret, pulled, out, nones, hint, hcalls, ub>>

\* ---- Option ----
None == << >>
Some(x) == <<x>>

\* cmp::min
Min(a, b) == IF a <= b THEN a ELSE b

\* ---- component iterators ------------------------------------------------
\* A component is a record [kind, items, pos, n]: `items` the underlying
\* sequence, `pos` the cursor (number of items consumed), `n` the count a
\* Take still lets through (0 for the other kinds).
\*   "slice"   exact size: slice::Iter, Range, vec::IntoIter   (TrustedIterator)
\*   "take"    iter::Take over a "slice"                       (TrustedIterator)
\*   "upper"   an iterator reporting (0, Some(rest)), like Filter
\*   "default" an iterator with Iterator's default size_hint (0, None)
TrustedKinds == {"slice", "take"}
Kinds == TrustedKinds \cup {"upper", "default"}

\* the k-th item of the component at tuple position i
Elt(i, k) == 10 * i + k

MkIter(i, kind, len, n) ==
    [kind |-> kind, items |-> [k \in 1..len |-> Elt(i, k)], pos |-> 0,
     n |-> IF kind = "take" THEN n ELSE 0]

\* items left in the underlying sequence
Rest(c) == Len(c.items) - c.pos

\* $B.next(): the component after the call and the Option it returned
Iter_next(c) ==
    IF c.kind = "take" /\ c.n = 0
    THEN [it |-> c, item |-> None]
    ELSE LET d == IF c.kind = "take" THEN [c EXCEPT !.n = @ - 1] ELSE c
         IN  IF d.pos < Len(d.items)
             THEN [it |-> [d EXCEPT !.pos = @ + 1], item |-> Some(d.items[d.pos + 1])]
             ELSE [it |-> d, item |-> None]

\* variant: a Take that reports its limit without consulting the inner iterator
Take_size_hint_limit(rest, n) == <<n, Some(n)>>

\* size_hint of a Take holding n over an inner hint (rest, Some(rest))
Take_size_hint(rest, n) ==
    IF n = 0 THEN <<0, Some(0)>>
    ELSE <<Min(rest, n), IF rest < n THEN Some(rest) ELSE Some(n)>>

\* $B.size_hint()
Iter_size_hint(c) ==
    CASE c.kind = "slice"   -> <<Rest(c), Some(Rest(c))>>
      [] c.kind = "take"    -> Take_size_hint(Rest(c), c.n)
      [] c.kind = "upper"   -> <<0, Some(Rest(c))>>
      [] c.kind = "default" -> <<0, None>>

\* ---- Zip ----------------------------------------------------------------
\* Zip::new: wraps the tuple as is
Zip_new_t(tuple) == tuple

\* variant: the items are collected in reverse component order
ZipItemReversed(acc, elt) == <<elt>> \o acc

\* Some(($($B,)*)): the items are collected in component order
ZipItem(acc, elt) == Append(acc, elt)

\* variant: every component is pulled before any result is inspected
RECURSIVE ZipNextFromEager(_, _, _, _)
ZipNextFromEager(tu, i, acc, log) ==
    IF i > Len(tu)
    THEN [t |-> tu, ret |-> IF Len(acc) = Len(tu) THEN Some(acc) ELSE None, pulled |-> log]
    ELSE LET r == Iter_next(tu[i])
         IN  ZipNextFromEager([tu EXCEPT ![i] = r.it], i + 1,
                              IF r.item = None THEN acc ELSE Append(acc, r.item[1]),
                              Append(log, i))

\* Zip::next from component i on, acc the items pulled so far on this call,
\* log the components pulled so far on this call
RECURSIVE ZipNextFrom(_, _, _, _)
ZipNextFrom(tu, i, acc, log) ==
    IF i > Len(tu)
    THEN [t |-> tu, ret |-> Some(acc), pulled |-> log]
    ELSE LET r == Iter_next(tu[i])
             tu2 == [tu EXCEPT ![i] = r.it]
         IN  IF r.item = None
             THEN [t |-> tu2, ret |-> None, pulled |-> Append(log, i)]
             ELSE ZipNextFrom(tu2, i + 1, ZipItem(acc, r.item[1]), Append(log, i))

Zip_next(tu) == ZipNextFrom(tu, 1, << >>, << >>)

\* let low = ::std::usize::MAX
ZipLowSeed == USIZE_MAX

\* variant: cmp::max in place of cmp::min
ZipLowMax(low, l) == IF low >= l THEN low ELSE l

\* let low = cmp::min(low, l)
ZipLow(low, l) == Min(low, l)

\* variant: the fallback arm is h in place of high.or(h)
ZipHighLast(high, h) ==
    IF high # None /\ h # None THEN Some(Min(high[1], h[1])) ELSE h

\* let high = match (high, h) { (Some(u1), Some(u2)) => Some(min(u1, u2)), _ => high.or(h) }
ZipHigh(high, h) ==
    IF high # None /\ h # None THEN Some(Min(high[1], h[1]))
    ELSE IF high # None THEN high ELSE h

\* variant: only the first component's estimate is reported
RECURSIVE ZipSizeHintFirst(_, _, _, _)
ZipSizeHintFirst(tu, i, low, high) ==
    IF i > Len(tu) THEN <<low, high>>
    ELSE LET lh == Iter_size_hint(tu[i])
         IN  ZipSizeHintFirst(tu, Len(tu) + 1, ZipLow(low, lh[1]), ZipHigh(high, lh[2]))

RECURSIVE ZipSizeHintFrom(_, _, _, _)
ZipSizeHintFrom(tu, i, low, high) ==
    IF i > Len(tu) THEN <<low, high>>
    ELSE LET lh == Iter_size_hint(tu[i])
         IN  ZipSizeHintFrom(tu, i + 1, ZipLow(low, lh[1]), ZipHigh(high, lh[2]))

Zip_size_hint(tu) == ZipSizeHintFrom(tu, 1, ZipLowSeed, None)

\* ---- ZipTrusted ---------------------------------------------------------
\* let len = ::std::usize::MAX
SetLengthSeed == USIZE_MAX

\* variant: len = l in place of cmp::min(len, l)
SetLengthLast(len, l) == l

\* let len = cmp::min(len, l)
SetLengthMin(len, l) == Min(len, l)

RECURSIVE SetLengthFrom(_, _, _)
SetLengthFrom(tu, i, len) ==
    IF i > Len(tu) THEN len
    ELSE SetLengthFrom(tu, i + 1, SetLengthMin(len, Iter_size_hint(tu[i])[1]))

\* set_length: the value stored in self.length
set_length(tu) == SetLengthFrom(tu, 1, SetLengthSeed)

\* variant: the assertion sits outside the macro repetition, on the first component
set_length_asserts_first(tu) ==
    Some(Iter_size_hint(tu[1])[1]) = Iter_size_hint(tu[1])[2]

\* debug_assert!(Some(l) == h) for every component
set_length_asserts(tu) ==
    \A i \in 1..Len(tu) : Some(Iter_size_hint(tu[i])[1]) = Iter_size_hint(tu[i])[2]

\* variant: the early return on length == 0 is missing
TrustedAtEndNever(len) == FALSE

\* if self.length == 0 { return None }
TrustedAtEnd(len) == len = 0

\* variant: the decrement is missing
LengthKept(len) == len

\* self.length -= 1 (usize arithmetic)
LengthDec(len) == (len - 1) % (USIZE_MAX + 1)

\* variant: the decrement sits inside the macro repetition, once per component
RECURSIVE TrustedNextFromDecEach(_, _, _, _, _)
TrustedNextFromDecEach(tu, len, i, acc, log) ==
    IF i > Len(tu)
    THEN [t |-> tu, length |-> len, ret |-> Some(acc), pulled |-> log, ub |-> FALSE]
    ELSE LET r == Iter_next(tu[i])
             tu2 == [tu EXCEPT ![i] = r.it]
         IN  IF r.item = None
             THEN [t |-> tu2, length |-> len, ret |-> None, pulled |-> Append(log, i), ub |-> TRUE]
             ELSE TrustedNextFromDecEach(tu2, LengthDec(len), i + 1,
                                         Append(acc, r.item[1]), Append(log, i))

\* the pulls of ZipTrusted::next from component i on; ub is set when a pull
\* returns None, the case handed to intrinsics::assume as impossible
RECURSIVE TrustedNextFrom(_, _, _, _, _)
TrustedNextFrom(tu, len, i, acc, log) ==
    IF i > Len(tu)
    THEN [t |-> tu, length |-> LengthDec(len), ret |-> Some(acc), pulled |-> log, ub |-> FALSE]
    ELSE LET r == Iter_next(tu[i])
             tu2 == [tu EXCEPT ![i] = r.it]
         IN  IF r.item = None
             THEN [t |-> tu2, length |-> len, ret |-> None, pulled |-> Append(log, i), ub |-> TRUE]
             ELSE TrustedNextFrom(tu2, len, i + 1, Append(acc, r.item[1]), Append(log, i))

\* variant: the end test is off by one
ZipTrusted_next_early(tu, len) ==
    IF len <= 1
    THEN [t |-> tu, length |-> len, ret |-> None, pulled |-> << >>, ub |-> FALSE]
    ELSE TrustedNextFrom(tu, len, 1, << >>, << >>)

\* variant: the decrement comes before the end test
ZipTrusted_next_dec_first(tu, len) ==
    IF TrustedAtEnd(len)
    THEN [t |-> tu, length |-> LengthDec(len), ret |-> None, pulled |-> << >>, ub |-> FALSE]
    ELSE TrustedNextFrom(tu, len, 1, << >>, << >>)

\* ZipTrusted::next
ZipTrusted_next(tu, len) ==
    IF TrustedAtEnd(len)
    THEN [t |-> tu, length |-> len, ret |-> None, pulled |-> << >>, ub |-> FALSE]
    ELSE TrustedNextFrom(tu, len, 1, << >>, << >>)

\* variant: the upper bound is left out
ZipTrusted_size_hint_lower(len) == <<len, None>>

\* (self.length, Some(self.length))
ZipTrusted_size_hint(len) == <<len, Some(len)>>

\* ---- the state machine --------------------------------------------------
\* the component iterators a caller may hand over: kind, length, Take limit
Shapes == {sh \in [kind : Kinds, len : 0..MaxLen, n : 0..MaxLen] :
              sh.kind # "take" => sh.n = 0}

Init ==
    /\ impls = TrustedKinds
    /\ asserted = None
    /\ \E arity \in 1..MaxN : \E sh \in [1..arity -> Shapes] :
          src = [i \in 1..arity |-> MkIter(i, sh[i].kind, sh[i].len, sh[i].n)]
    /\ z = "none"
    /\ t = << >>
    /\ length = 0
    /\ ret = None
    /\ pulled = << >>
    /\ out = << >>
    /\ nones = 0
    /\ hint = << >>
    /\ hcalls = 0
    /\ ub = FALSE

\* Zip::new(t)
ZipNew ==
    /\ z = "none"
    /\ z' = "Zip"
    /\ t' = Zip_new_t(src)
    /\ UNCHANGED <<impls, asserted, src, length, ret, pulled, out, nones, hint, hcalls, ub>>

\* ZipTrusted::new(t): only tuples of TrustedIterator components type-check.
\* A failing debug_assert! panics in a build with debug assertions and is
\* compiled out otherwise.
ZipTrustedNew ==
    /\ z = "none"
    /\ \A i \in 1..Len(src) : src[i].kind \in impls
    /\ asserted' = Some(set_length_asserts(src))
    /\ z' \in IF set_length_asserts(src) THEN {"ZipTrusted"} ELSE {"ZipTrusted", "panicked"}
    /\ t' = IF z' = "ZipTrusted" THEN src ELSE t
    /\ length' = IF z' = "ZipTrusted" THEN set_length(src) ELSE length
    /\ UNCHANGED <<impls, src, ret, pulled, out, nones, hint, hcalls, ub>>

\* Zip::next(&mut self)
ZipNext ==
    /\ z = "Zip"
    /\ nones < MaxNones
    /\ LET r == Zip_next(t)
       IN  /\ t' = r.t
           /\ ret' = r.ret
           /\ pulled' = r.pulled
           /\ out' = IF r.ret = None THEN out ELSE Append(out, r.ret[1])
           /\ nones' = IF r.ret = None THEN nones + 1 ELSE nones
    /\ hint' = << >>
    /\ hcalls' = 0
    /\ UNCHANGED <<impls, asserted, src, z, length, ub>>

\* variant: a size_hint that measures by pulling the components
ZipSizeHintConsuming ==
    /\ z = "Zip"
    /\ hcalls < MaxHints
    /\ t' = Zip_next(t).t
    /\ hint' = Zip_size_hint(t')
    /\ hcalls' = hcalls + 1
    /\ UNCHANGED <<impls, asserted, src, z, length, ret, pulled, out, nones, ub>>

\* Zip::size_hint(&self)
ZipSizeHint ==
    /\ z = "Zip"
    /\ hcalls < MaxHints
    /\ hint' = Zip_size_hint(t)
    /\ hcalls' = hcalls + 1
    /\ UNCHANGED <<impls, asserted, src, z, t, length, ret, pulled, out, nones, ub>>

\* ZipTrusted::next(&mut self); nothing is defined after assume(false)
ZipTrustedNext ==
    /\ z = "ZipTrusted"
    /\ ~ub
    /\ nones < MaxNones
    /\ LET r == ZipTrusted_next(t, length)
       IN  /\ t' = r.t
           /\ length' = r.length
           /\ ret' = r.ret
           /\ pulled' = r.pulled
           /\ ub' = r.ub
           /\ out' = IF r.ret = None THEN out ELSE Append(out, r.ret[1])
           /\ nones' = IF r.ret = None THEN nones + 1 ELSE nones
    /\ hint' = << >>
    /\ hcalls' = 0
    /\ UNCHANGED <<impls, asserted, src, z>>

\* ZipTrusted::size_hint(&self)
ZipTrustedSizeHint ==
    /\ z = "ZipTrusted"
    /\ ~ub
    /\ hcalls < MaxHints
    /\ hint' = ZipTrusted_size_hint(length)
    /\ hcalls' = hcalls + 1
    /\ UNCHANGED <<impls, asserted, src, z, t, length, ret, pulled, out, nones, ub>>

Next ==
    \/ ZipNew
    \/ ZipTrustedNew
    \/ ZipNext
    \/ ZipSizeHint
    \/ ZipTrustedNext
    \/ ZipTrustedSizeHint

Spec == Init /\ [][Next]_vars

\* ---- construction over arbitrary TrustedIterator types --------------------
\* TrustedIterator is a public unsafe trait: a caller may implement it for a
\* type of their own, here the kinds "upper" and "default", and may have
\* pulled items from the components before wrapping them.
InitNew ==
    /\ impls = Kinds
    /\ asserted = None
    /\ \E arity \in 1..MaxNewN : \E sh \in [1..arity -> Shapes] :
          src = [i \in 1..arity |-> MkIter(i, sh[i].kind, sh[i].len, sh[i].n)]
    /\ z = "none"
    /\ t = << >>
    /\ length = 0
    /\ ret = None
    /\ pulled = << >>
    /\ out = << >>
    /\ nones = 0
    /\ hint = << >>
    /\ hcalls = 0
    /\ ub = FALSE

\* the caller pulls an item from a component it has not wrapped yet
PullBefore ==
    /\ z = "none"
    /\ \E i \in 1..Len(src) :
          /\ Iter_next(src[i]).item # None
          /\ src' = [src EXCEPT ![i] = Iter_next(src[i]).it]
    /\ UNCHANGED <<impls, asserted, z, t, length, ret, pulled, out, nones, hint, hcalls, ub>>

NextNew ==
    \/ PullBefore
    \/ ZipTrustedNew

SpecNew == InitNew /\ [][NextNew]_vars

TypeOK ==
    /\ z \in {"none", "Zip", "ZipTrusted", "panicked"}
    /\ impls \subseteq Kinds
    /\ asserted \in {None, Some(TRUE), Some(FALSE)}
    /\ nones \in 0..MaxNones
    /\ length \in 0..USIZE_MAX
    /\ hcalls \in 0..MaxHints
    /\ ub \in BOOLEAN
\* ---- vocabulary of the properties ---------------------------------------
MinOf(S) == CHOOSE m \in S : \A x \in S : m <= x

\* number of items component c yields in total from where it stands
Yields(c) == IF c.kind = "take" THEN Min(Rest(c), c.n) ELSE Rest(c)

\* min(L1..LN) of a tuple of components
MinYields(tu) == MinOf({Yields(tu[i]) : i \in 1..Len(tu)})

\* the k-th tuple of the lockstep traversal of the tuple handed to new()
Aligned(k) == [i \in 1..Len(src) |-> src[i].items[k]]

\* the leftmost component of t that reports exhaustion when pulled
FirstExhausted == MinOf({i \in 1..Len(t) : Yields(t[i]) = 0})

\* number of tuples ZipTrusted::next still yields from (tu, len)
RECURSIVE StillYields(_, _)
StillYields(tu, len) ==
    LET r == ZipTrusted_next(tu, len)
    IN  IF r.ret = None THEN 0 ELSE 1 + StillYields(r.t, r.length)

\* ---- C1 -----------------------------------------------------------------
\* C1: stepping a fresh Zip yields exactly min(L1..LN) tuples before the
\* first None, and the k-th tuple yielded is the tuple of the k-th items of
\* the components, in component order.
C1_ZipYieldsMinAligned ==
    z = "Zip" =>
        /\ Len(out) <= MinYields(src)
        /\ nones > 0 => Len(out) = MinYields(src)
        /\ \A k \in 1..Len(out) : out[k] = Aligned(k)

C1_Witness ==
    /\ z = "Zip" /\ nones = 1 /\ Len(src) = 3 /\ Len(out) = 1
    /\ Len(src[1].items) = 2 /\ Len(src[2].items) = 1 /\ Len(src[3].items) = 2

\* ---- C2 -----------------------------------------------------------------
\* C2 as stated: the upper bound Zip::size_hint reports is the minimum of the
\* components' upper bounds when every component reports one, and is None
\* whenever any component's upper bound is None.
C2_UpperAbsentIfAnyAbsent ==
    (z = "Zip" /\ hint # << >>) =>
        LET ups == {Iter_size_hint(t[i])[2] : i \in 1..Len(t)}
        IN  IF None \in ups THEN hint[2] = None
            ELSE hint[2] = Some(MinOf({u[1] : u \in ups}))

\* C2 amended: the upper bound Zip::size_hint reports is the minimum of the
\* upper bounds of the components that report one (so the minimum of all of
\* them when every component reports one), and is None only when no
\* component reports an upper bound.
C2_UpperMinOfPresent ==
    (z = "Zip" /\ hint # << >>) =>
        LET ups == {Iter_size_hint(t[i])[2] : i \in 1..Len(t)} \ {None}
        IN  IF ups = {} THEN hint[2] = None
            ELSE hint[2] = Some(MinOf({u[1] : u \in ups}))

C2_Witness ==
    /\ z = "Zip" /\ hint # << >> /\ hint[2] # None /\ out # << >>
    /\ \E i \in 1..Len(t) : Iter_size_hint(t[i])[2] = None
    /\ \E i, j \in 1..Len(t) :
          /\ Iter_size_hint(t[i])[2] # None /\ Iter_size_hint(t[j])[2] # None
          /\ Iter_size_hint(t[i])[2] # Iter_size_hint(t[j])[2]

\* ---- C3 -----------------------------------------------------------------
\* C3: the lower bound Zip::size_hint reports is the minimum of the
\* components' current lower bounds; the usize::MAX seed is never reported
\* in its place.
C3_LowerIsMin ==
    (z = "Zip" /\ hint # << >>) =>
        hint[1] = MinOf({Iter_size_hint(t[i])[1] : i \in 1..Len(t)})

C3_Witness ==
    /\ z = "Zip" /\ hint # << >> /\ hint[1] = 1 /\ Len(t) = 3
    /\ Iter_size_hint(t[1])[1] = 2 /\ Iter_size_hint(t[2])[1] = 1
    /\ Iter_size_hint(t[3])[1] = 2

\* ---- C4 -----------------------------------------------------------------
\* C4: Zip::next pulls the components left to right; on a call that returns
\* None, with j the leftmost exhausted component, the pulls are exactly
\* 1..j, each component before j has advanced by one item and no component
\* after j has been touched.
C4_PartialConsume ==
    [][ZipNext =>
          /\ pulled' = [i \in 1..Len(pulled') |-> i]
          /\ ret' # None => Len(pulled') = Len(t)
          /\ ret' = None =>
                LET j == FirstExhausted
                IN  /\ pulled' = [i \in 1..j |-> i]
                    /\ \A i \in 1..(j - 1) : t'[i].pos = t[i].pos + 1
                    /\ t'[j].pos = t[j].pos
                    /\ \A i \in (j + 1)..Len(t) : t'[i] = t[i]
      ]_vars

C4_Witness ==
    /\ z = "Zip" /\ ret = None /\ nones = 1 /\ Len(t) = 3 /\ pulled = <<1, 2>>
    /\ t[1].pos = Len(out) + 1 /\ t[2].pos = Len(out) /\ t[3].pos = Len(out)
    /\ Yields(t[3]) > 0

\* ---- C5 -----------------------------------------------------------------
\* C5: ZipTrusted::new sets length to min(L1..LN); length is 0 exactly when
\* min(L1..LN) tuples have been yielded, and next returns None only then
\* and yields nothing more.
C5_TrustedCount ==
    z = "ZipTrusted" =>
        /\ length = MinYields(src) - Len(out)
        /\ length = 0 <=> Len(out) = MinYields(src)
        /\ nones > 0 => (length = 0 /\ Len(out) = MinYields(src))
        /\ ~ub

C5_Witness ==
    /\ z = "ZipTrusted" /\ length = 0 /\ nones = 2 /\ Len(out) = 1 /\ Len(src) = 3
    /\ Yields(src[1]) = 2 /\ Yields(src[2]) = 2 /\ Yields(src[3]) = 1

\* ---- C6 -----------------------------------------------------------------
\* C6: in every state of a ZipTrusted, length equals the minimum over the
\* components of the number of items the component has left.
C6_LengthIsMinRemaining ==
    z = "ZipTrusted" => length = MinYields(t)

C6_Witness ==
    /\ z = "ZipTrusted" /\ Len(out) = 1 /\ length = 0 /\ nones = 0
    /\ \E i \in 1..Len(t) : t[i].kind = "take" /\ Yields(t[i]) = 0
    /\ \E i \in 1..Len(t) : Yields(t[i]) > length

\* ---- C7 -----------------------------------------------------------------
\* C7: ZipTrusted::next called with length = 0 returns None, pulls no
\* component and leaves every component and length unchanged.
C7_TerminalNoOp ==
    [][(ZipTrustedNext /\ length = 0) =>
          (ret' = None /\ pulled' = << >> /\ t' = t /\ length' = 0 /\ out' = out)
      ]_vars

C7_Witness ==
    /\ z = "ZipTrusted" /\ length = 0 /\ nones = MaxNones /\ ret = None
    /\ \E i \in 1..Len(t) : Yields(t[i]) > 0
    /\ \A i \in 1..Len(t) : t[i].pos = Len(out)

\* ---- C8 -----------------------------------------------------------------
\* C8: ZipTrusted::size_hint returns (length, Some(length)), and that value
\* is the number of tuples next will still yield: min(L1..LN) before the
\* first step and 0 once next has returned None.
C8_TrustedHintExact ==
    (z = "ZipTrusted" /\ hint # << >>) =>
        /\ hint = <<length, Some(length)>>
        /\ hint[1] = StillYields(t, length)
        /\ (out = << >> /\ nones = 0) => hint[1] = MinYields(src)
        /\ nones > 0 => hint = <<0, Some(0)>>

C8_Witness ==
    /\ z = "ZipTrusted" /\ hint # << >> /\ hint[1] = 1 /\ Len(out) = 1 /\ Len(t) = 2

\* ---- C9 -----------------------------------------------------------------
\* C9: a Take limited to K over an exact-size sequence of length L reports
\* (min(L,K) - consumed, Some(min(L,K) - consumed)) at every point of its
\* traversal, and a ZipTrusted of it with an exact-size sequence of length M
\* yields exactly min(L,K,M) tuples.
C9_TakeExact ==
    /\ z # "none" =>
          \A i \in 1..Len(t) : t[i].kind = "take" =>
              LET m == Min(Len(src[i].items), src[i].n) - t[i].pos
              IN  Iter_size_hint(t[i]) = <<m, Some(m)>>
    /\ (z = "ZipTrusted" /\ Len(src) = 2 /\ nones > 0) =>
          \A i \in 1..2 : src[i].kind = "take" =>
              Len(out) = Min(Min(Len(src[i].items), src[i].n), Yields(src[3 - i]))

C9_Witness ==
    /\ z = "ZipTrusted" /\ Len(src) = 2 /\ nones > 0 /\ Len(out) = 1
    /\ src[1].kind = "take" /\ Len(src[1].items) = 2 /\ src[1].n = 1
    /\ src[2].kind = "slice" /\ Len(src[2].items) = 2

\* ---- C10 ----------------------------------------------------------------
\* C10: a size_hint call of either adaptor leaves the components and length
\* unchanged, and returns what the previous size_hint call returned when no
\* next call came between the two.
C10_SizeHintPure ==
    [][(ZipSizeHint \/ ZipTrustedSizeHint) =>
          /\ t' = t /\ length' = length /\ out' = out /\ ret' = ret
          /\ hint # << >> => hint' = hint
      ]_vars

C10_Witness ==
    /\ hcalls = 2 /\ hint # << >> /\ out # << >>
    /\ \E i \in 1..Len(t) : Yields(t[i]) > 0
\* ---- vocabulary of the later properties ---------------------------------
\* the Zip built from tuple tu after k calls of next: its components and the
\* result of the k-th call
RECURSIVE ZipRun(_, _)
ZipRun(tu, k) ==
    IF k = 0 THEN [t |-> tu, ret |-> None]
    ELSE LET r == Zip_next(ZipRun(tu, k - 1).t)
         IN  [t |-> r.t, ret |-> r.ret]

\* number of next calls made on the adaptor so far
Calls == Len(out) + nones

\* the component at which a Zip over src first reports None
FirstToEnd == MinOf({i \in 1..Len(src) : Yields(src[i]) = MinYields(src)})

\* number of tuples Zip::next still yields from tu
RECURSIVE ZipStillYields(_)
ZipStillYields(tu) ==
    LET r == Zip_next(tu)
    IN  IF r.ret = None THEN 0 ELSE 1 + ZipStillYields(r.t)

\* the estimate of component c is sound
SoundHint(c) ==
    LET lh == Iter_size_hint(c)
    IN  lh[1] <= Yields(c) /\ (lh[2] # None => Yields(c) <= lh[2][1])

\* ---- C11 ----------------------------------------------------------------
\* C11: a ZipTrusted and a Zip built from the same tuple of exact-size
\* components return the same result on every next call, calls after
\* exhaustion included; only the components' cursors may differ.
C11_SameResults ==
    (z = "ZipTrusted" /\ Calls > 0) => ret = ZipRun(src, Calls).ret

C11_Witness ==
    /\ z = "ZipTrusted" /\ nones = 2 /\ Len(out) = 1 /\ ret = None
    /\ ZipRun(src, Calls).ret = None
    /\ ZipRun(src, Calls).t # t

\* ---- C12 ----------------------------------------------------------------
\* C12 as stated: after the first None every later Zip::next returns None,
\* and each such call pulls one more item from every component positioned
\* before the component that first reported exhaustion, as long as that
\* component is not itself exhausted.
C12_PullsBeforeFirstToEnd ==
    [][(ZipNext /\ nones > 0) =>
          /\ ret' = None
          /\ \A i \in 1..(FirstToEnd - 1) :
                Yields(t[i]) > 0 => t'[i].pos = t[i].pos + 1
      ]_vars

\* C12 amended: after the first None every later Zip::next returns None,
\* and each such call pulls one more item from every component positioned
\* before the leftmost component exhausted at the time of the call, and
\* from no other component.
C12_PullsBeforeLeftmostExhausted ==
    [][(ZipNext /\ nones > 0) =>
          /\ ret' = None
          /\ out' = out
          /\ \A i \in 1..Len(t) :
                t'[i].pos = IF i < FirstExhausted THEN t[i].pos + 1 ELSE t[i].pos
      ]_vars

C12_Witness ==
    /\ z = "Zip" /\ nones = 2 /\ ret = None /\ Len(t) = 3 /\ FirstToEnd = 3
    /\ pulled = <<1>> /\ Yields(t[2]) > 0
    /\ t[1].pos = 1 /\ t[2].pos = 1 /\ t[3].pos = 0

\* ---- C13 ----------------------------------------------------------------
\* C13: with sound component estimates, Zip::size_hint is sound in every
\* state: lower <= number of tuples next still yields <= upper when present;
\* once next has returned None the lower bound is 0.
C13_ZipHintSound ==
    (z = "Zip" /\ hint # << >> /\ \A i \in 1..Len(t) : SoundHint(t[i])) =>
        /\ hint[1] <= ZipStillYields(t)
        /\ hint[2] # None => ZipStillYields(t) <= hint[2][1]
        /\ nones > 0 => hint[1] = 0

C13_Witness ==
    /\ z = "Zip" /\ hint # << >> /\ nones = 1 /\ Len(out) = 1 /\ hint[2] # None
    /\ t[1].pos = 2 /\ Len(t) = 3
    /\ \E i \in 1..Len(t) : Yields(t[i]) > 0

\* ---- C14 ----------------------------------------------------------------
\* C14: in every state of a ZipTrusted each component has advanced by the
\* number of tuples yielded; a next call that yields advances every
\* component by one and decrements length by one, and every other call
\* leaves the components and length unchanged.
C14_NoPartialConsume ==
    [][/\ z' = "ZipTrusted" => \A i \in 1..Len(t') : t'[i].pos = Len(out')
       /\ (ZipTrustedNext /\ ret' # None) =>
             /\ \A i \in 1..Len(t) : t'[i].pos = t[i].pos + 1
             /\ length' = length - 1
       /\ (ZipTrustedNext /\ ret' = None) => (t' = t /\ length' = length)
       /\ ZipTrustedSizeHint => (t' = t /\ length' = length)
      ]_vars

C14_Witness ==
    /\ z = "ZipTrusted" /\ Len(out) = 2 /\ nones = 1 /\ length = 0 /\ Len(t) = 3
    /\ \A i \in 1..3 : t[i].pos = 2

\* ---- C15 ----------------------------------------------------------------
\* C15: length never underflows: it changes only by a decrement taken when
\* it is positive, so it never grows and stays within 0..its value at
\* construction.
C15_NoUnderflow ==
    [][z = "ZipTrusted" =>
          /\ length' <= length
          /\ length' \in 0..set_length(src)
          /\ length' # length => (length > 0 /\ length' = length - 1)
      ]_vars

C15_Witness ==
    /\ z = "ZipTrusted" /\ length = 0 /\ nones = MaxNones /\ Len(out) = 2
    /\ set_length(src) = 2
\* ---- C16 ----------------------------------------------------------------
\* C16: ZipTrusted::new asserts lower == upper for every component: the
\* assertion holds for every tuple of exact-size components, wherever in
\* their traversal they are wrapped, and fails when any one component,
\* whatever its position or length, reports a lower bound different from
\* its upper bound or no upper bound; only a failed assertion panics.
C16_AssertsEveryComponent ==
    [][ZipTrustedNew =>
          LET exact(i) == LET lh == Iter_size_hint(src[i])
                          IN  lh[2] # None /\ lh[2][1] = lh[1]
          IN  /\ (\A i \in 1..Len(src) : src[i].kind \in TrustedKinds) =>
                    (asserted' = Some(TRUE) /\ z' = "ZipTrusted")
              /\ (\E i \in 1..Len(src) : ~exact(i)) => asserted' = Some(FALSE)
              /\ (\A i \in 1..Len(src) : exact(i)) => asserted' = Some(TRUE)
              /\ z' = "panicked" => asserted' = Some(FALSE)
      ]_vars

C16_Witness ==
    /\ z = "panicked" /\ asserted = Some(FALSE) /\ Len(src) = 2
    /\ src[1].kind = "slice" /\ src[1].pos = 1 /\ Rest(src[1]) = 0
    /\ src[2].kind = "default" /\ Rest(src[2]) = 2
====
